---- MODULE Spec2Model ----
\* A model of buckpal-rust: the Money / Activity / ActivityWindow / Account
\* domain, the persistence adapter over the activity_entity table and the
\* send-money use case with its account lock.
EXTENDS Integers, Sequences, FiniteSets, TLC

\* ------------------------------------------------------------------ bounds
\* Width of the amount column (Rust i64), scaled down so that values outside
\* the column's range are within the reach of the model checker.
I64Bits == 3
\* Number of send_money calls in a run of non-tasks calls.
MaxCalls == 2
\* Number of times the clock advances.
MaxTicks == 1

\* ------------------------------------------------------- program constants
\* send_money: baseline_date = now - 10 days.
WindowDays == 10

\* -------------------------------------------------------------- value sets
Pow2(n) == 2 ^ n
MinI64 == 0 - Pow2(I64Bits - 1)
MaxI64 == Pow2(I64Bits - 1) - 1
\* i128 is twice as wide as i64.
I128Bits == 2 * I64Bits
MinI128 == 0 - Pow2(I128Bits - 1)
MaxI128 == Pow2(I128Bits - 1) - 1

\* Option<T>: None is the empty sequence, Some(x) the one-element sequence.
None == << >>
Some(x) == << x >>
IsNone(o) == o = << >>
Unwrap(o) == o[1]

\* Rows of account_entity: the accounts that exist.  Account 3 has no row.
ExistingAccounts == {1, 2}
AccountIds == {1, 2, 3}

\* Amounts a command may carry (Money wraps a BigInt, the command is not
\* validated): inside the column's range, just outside it on both sides, and
\* below the i128 range.
Amounts == {MinI128 - 1, MinI64 - 1, 0 - 2, 1, 2, MaxI64 + 1}

\* Configured values of maximum_transfer_threshold.
Thresholds == {2}

\* The clock starts late enough for a row to lie before every baseline date.
StartTime == WindowDays + 1

\* The request handler tasks that may run send_money at the same time.
Procs == {1, 2}

\* Time that passes between two steps.
TickSteps == {WindowDays}

\* -------------------------------------------------------------------- Money
\* src/domain/src/vo/money.rs.  amount is a BigInt: no width.
Money_of(value) == value
Money_add(a, b) == a + b
Money_substract(a, b) == a - b
Money_negate(a) == 0 - a
\* Variant: minus takes the receiver from the argument.
Money_minus_reversed(a, b) == b - a
Money_minus(a, b) == a - b
Money_plus(a, b) == a + b
Money_is_positive_or_zero(a) == a >= 0
Money_is_negative(a) == a < 0
Money_is_positive(a) == a > 0
Money_is_greater_than_or_equal_to(a, b) == a >= b
\* Variant: the comparison also holds for equal amounts.
Money_is_greater_than_inclusive(a, b) == a >= b
Money_is_greater_than(a, b) == a > b

\* ----------------------------------------------------------------- Activity
Activity_with_id(id, owner, source, target, timestamp, money) ==
    [id |-> id, owner_account_id |-> owner, source_account_id |-> source,
     target_account_id |-> target, timestamp |-> timestamp, money |-> money]

\* Variant: the new activity names its two accounts the other way round.
Activity_new_swapped(owner, source, target, timestamp, money) ==
    Activity_with_id(None, owner, target, source, timestamp, money)

Activity_new(owner, source, target, timestamp, money) ==
    Activity_with_id(None, owner, source, target, timestamp, money)

\* ----------------------------------------------------------- ActivityWindow
\* A window is the sequence of its activities (Vec<Activity>).
RECURSIVE FoldMoney(_, _)
\* .map(|a| &a.money).fold(Money::of(0), |acc, money| Money::add(&acc, money))
FoldMoney(activities, acc) ==
    IF activities = << >> THEN acc
    ELSE FoldMoney(Tail(activities), Money_add(acc, Head(activities).money))

\* Variant: the withdrawals are added instead of subtracted.
Window_calculate_balance_unsigned(activities, account_id) ==
    LET deposits == SelectSeq(activities,
                        LAMBDA a : a.target_account_id = account_id)
        withdrawals == SelectSeq(activities,
                        LAMBDA a : a.source_account_id = account_id)
    IN  Money_add(FoldMoney(deposits, Money_of(0)),
                  FoldMoney(withdrawals, Money_of(0)))

Window_calculate_balance(activities, account_id) ==
    LET deposits == SelectSeq(activities,
                        LAMBDA a : a.target_account_id = account_id)
        withdrawals == SelectSeq(activities,
                        LAMBDA a : a.source_account_id = account_id)
        deposit_balance == FoldMoney(deposits, Money_of(0))
        withdrawal_balance == FoldMoney(withdrawals, Money_of(0))
    IN  Money_add(deposit_balance, Money_negate(withdrawal_balance))

\* Variant: an activity equal to one of the window is not added again.
Window_add_activity_dedup(activities, activity) ==
    IF \E i \in 1 .. Len(activities) : activities[i] = activity
    THEN activities
    ELSE Append(activities, activity)

Window_add_activity(activities, activity) == Append(activities, activity)

RECURSIVE FoldMin(_, _)
\* Iterator::min over the timestamps left, `acc` the smallest so far.
FoldMin(activities, acc) ==
    IF activities = << >> THEN acc
    ELSE FoldMin(Tail(activities),
                 IF Head(activities).timestamp < acc
                 THEN Head(activities).timestamp ELSE acc)

RECURSIVE FoldMax(_, _)
\* Iterator::max over the timestamps left, `acc` the largest so far.
FoldMax(activities, acc) ==
    IF activities = << >> THEN acc
    ELSE FoldMax(Tail(activities),
                 IF Head(activities).timestamp >= acc
                 THEN Head(activities).timestamp ELSE acc)

\* Variant: an empty window starts at time 0.
Window_get_start_timestamp_or_zero(activities) ==
    IF activities = << >> THEN Some(0)
    ELSE Some(FoldMin(Tail(activities), Head(activities).timestamp))

\* get_start_timestamp: .min() of the timestamps; None stands for the panic
\* of unwrap() on the empty window.
Window_get_start_timestamp(activities) ==
    IF activities = << >> THEN None
    ELSE Some(FoldMin(Tail(activities), Head(activities).timestamp))

\* Variant: the end is the timestamp of the last activity.
Window_get_end_timestamp_last(activities) ==
    IF activities = << >> THEN None
    ELSE Some(activities[Len(activities)].timestamp)

\* get_end_timestamp: .max() of the timestamps; None stands for the panic
\* of unwrap() on the empty window.
Window_get_end_timestamp(activities) ==
    IF activities = << >> THEN None
    ELSE Some(FoldMax(Tail(activities), Head(activities).timestamp))

\* ------------------------------------------------------------------ Account
\* AccountImpl {id, baseline_balance, activity_window}
AccountImpl_new(id, baseline_balance, activity_window) ==
    [id |-> id, baseline_balance |-> baseline_balance,
     activity_window |-> activity_window]

Account_with_id(account_id, baseline_balance, activity_window) ==
    AccountImpl_new(Some(account_id), baseline_balance, activity_window)

Account_get_id(account) == account.id

\* Variant: the balance is that of the window alone.
Account_calculate_balance_without_baseline(account) ==
    Window_calculate_balance(account.activity_window, Unwrap(account.id))

Account_calculate_balance(account) ==
    Money_add(account.baseline_balance,
              Window_calculate_balance(account.activity_window,
                                       Unwrap(account.id)))

\* Variant: a withdrawal must leave a positive balance.
may_withdraw_strict(account, money) ==
    Money_is_positive(
        Money_add(Account_calculate_balance(account), Money_negate(money)))

may_withdraw(account, money) ==
    Money_is_positive_or_zero(
        Money_add(Account_calculate_balance(account), Money_negate(money)))

\* Variant: a rejected withdrawal still records its activity.
Account_withdraw_keeps_record(account, money, target_account_id, timestamp) ==
    << may_withdraw(account, money),
       [account EXCEPT !.activity_window =
           Window_add_activity(@,
               Activity_new(Unwrap(account.id), Unwrap(account.id),
                            target_account_id, timestamp, money))] >>

\* Variant: an accepted withdrawal records no activity.
Account_withdraw_unrecorded(account, money, target_account_id, timestamp) ==
    << may_withdraw(account, money), account >>

\* withdraw returns the pair <<result, account after the call>>.
Account_withdraw(account, money, target_account_id, timestamp) ==
    IF ~ may_withdraw(account, money)
    THEN << FALSE, account >>
    ELSE << TRUE,
            [account EXCEPT !.activity_window =
                Window_add_activity(@,
                    Activity_new(Unwrap(account.id), Unwrap(account.id),
                                 target_account_id, timestamp, money))] >>

\* Variant: a deposit of a negative amount is rejected.
Account_deposit_checked(account, money, source_account_id, timestamp) ==
    IF Money_is_negative(money)
    THEN << FALSE, account >>
    ELSE << TRUE,
            [account EXCEPT !.activity_window =
                Window_add_activity(@,
                    Activity_new(Unwrap(account.id), source_account_id,
                                 Unwrap(account.id), timestamp, money))] >>

Account_deposit(account, money, source_account_id, timestamp) ==
    << TRUE,
       [account EXCEPT !.activity_window =
           Window_add_activity(@,
               Activity_new(Unwrap(account.id), source_account_id,
                            Unwrap(account.id), timestamp, money))] >>

\* -------------------------------------------------------------- persistence
\* `as i64` on an i128: keeps the low 64 bits (two's complement).
AsI64(n) == ((n - MinI64) % Pow2(I64Bits)) + MinI64

\* `as i128` on an i64: every i64 is an i128.
AsI128(n) == n

\* amount.to_string().parse::<i128>() succeeds exactly inside the i128 range.
ParsesAsI128(amount) == amount >= MinI128 /\ amount <= MaxI128

\* account_mapper::map_to_activity_entity, for an activity whose amount
\* parses (the unwrap panics otherwise).
map_to_activity_entity(activity) ==
    [id |-> activity.id,
     timestamp |-> activity.timestamp,
     owner_account_id |-> activity.owner_account_id,
     source_account_id |-> activity.source_account_id,
     target_account_id |-> activity.target_account_id,
     amount |-> AsI64(activity.money)]

\* account_mapper::map_to_activity_window
map_to_activity_window(entities) ==
    [i \in 1 .. Len(entities) |->
        Activity_with_id(Some(Unwrap(entities[i].id)),
                         entities[i].owner_account_id,
                         entities[i].source_account_id,
                         entities[i].target_account_id,
                         entities[i].timestamp,
                         Money_of(AsI128(entities[i].amount)))]

\* account_mapper::map_to_account
map_to_account(account_id, entities, withdrawal_balance, deposit_balance) ==
    Account_with_id(account_id,
        Money_substract(Money_of(deposit_balance), Money_of(withdrawal_balance)),
        map_to_activity_window(entities))

\* Variant: every id is found.
find_by_id_any(id) == Some(id)

\* AccountRepositoryImpl::find_by_id: Some(row) when the account has a row.
find_by_id(id) == IF id \in ExistingAccounts THEN Some(id) ELSE None

\* ActivityRepositoryImpl::find_by_owner_since over the table `table`.
find_by_owner_since(table, owner_account_id, timestamp) ==
    SelectSeq(table, LAMBDA r : r.owner_account_id = owner_account_id
                                /\ r.timestamp >= timestamp)

RECURSIVE SqlSum(_, _)
\* SELECT SUM(amount) over `rows`, accumulated from `acc` in a 64-bit integer:
\* the query fails with "integer overflow" as soon as the running sum leaves
\* the range; the result is Some(sum), and NULL (decoded as 0 by the i64
\* column decoder) over no rows.
SqlSum(rows, acc) ==
    IF rows = << >> THEN Some(acc)
    ELSE LET next == acc + Head(rows).amount
         IN  IF next < MinI64 \/ next > MaxI64 THEN None
             ELSE SqlSum(Tail(rows), next)

\* Variant: the deposits at the date itself are summed as well.
get_deposit_balance_until_inclusive(table, account_id, until) ==
    LET rows == SelectSeq(table, LAMBDA r : r.target_account_id = account_id
                                            /\ r.owner_account_id = account_id
                                            /\ r.timestamp <= until)
        row == SqlSum(rows, 0)
    IN  IF IsNone(row) THEN None ELSE Some(AsI128(Unwrap(row)))

\* ActivityRepositoryImpl::get_deposit_balance_until: Option<i128>
get_deposit_balance_until(table, account_id, until) ==
    LET rows == SelectSeq(table, LAMBDA r : r.target_account_id = account_id
                                            /\ r.owner_account_id = account_id
                                            /\ r.timestamp < until)
        row == SqlSum(rows, 0)
    IN  IF IsNone(row) THEN None ELSE Some(AsI128(Unwrap(row)))

\* ActivityRepositoryImpl::get_withdrawal_balance_until: Option<i128>
get_withdrawal_balance_until(table, account_id, until) ==
    LET rows == SelectSeq(table, LAMBDA r : r.source_account_id = account_id
                                            /\ r.owner_account_id = account_id
                                            /\ r.timestamp < until)
        row == SqlSum(rows, 0)
    IN  IF IsNone(row) THEN None ELSE Some(AsI128(Unwrap(row)))

\* Option::unwrap_or
UnwrapOr(o, default) == IF IsNone(o) THEN default ELSE Unwrap(o)

\* AccountPersistenceAdapter::load_account for an account that exists
\* (find_by_id's unwrap_or_else panics otherwise).
load_account(table, account_id, baseline_date) ==
    LET activities == find_by_owner_since(table, account_id, baseline_date)
        withdrawal_balance ==
            UnwrapOr(get_withdrawal_balance_until(table, account_id,
                                                  baseline_date), 0)
        deposit_balance ==
            UnwrapOr(get_deposit_balance_until(table, account_id,
                                               baseline_date), 0)
    IN  map_to_account(account_id, activities, withdrawal_balance,
                       deposit_balance)

\* Variant: the row replaces the last row of the table.
save_over_last(table, activity_entity) ==
    IF table = << >> THEN << [activity_entity EXCEPT !.id = Some(1)] >>
    ELSE [table EXCEPT ![Len(table)] =
             [activity_entity EXCEPT !.id = Some(Len(table))]]

\* ActivityRepositoryImpl::save: INSERT without an id, the table assigns the
\* next row id.
save(table, activity_entity) ==
    Append(table, [activity_entity EXCEPT !.id = Some(Len(table) + 1)])

\* Variant: every activity of the window is saved.
DirtyActivities_all(activities) == activities

\* The activities of a window that update_activities saves: those without id.
DirtyActivities(activities) ==
    SelectSeq(activities, LAMBDA a : IsNone(a.id))

RECURSIVE SaveAll(_, _, _)
\* The loop of AccountPersistenceAdapter::update_activities over the dirty
\* activities `dirty`; the save of the fail_at-th of them fails (0: none
\* fails).  Yields the table and whether the loop panicked, which it also
\* does on an amount that does not parse as i128.
SaveAll(table, dirty, fail_at) ==
    IF dirty = << >> THEN [table |-> table, panicked |-> FALSE]
    ELSE IF ~ ParsesAsI128(Head(dirty).money) \/ fail_at = 1
         THEN [table |-> table, panicked |-> TRUE]
         ELSE SaveAll(save(table, map_to_activity_entity(Head(dirty))),
                      Tail(dirty), fail_at - 1)

update_activities(table, account, fail_at) ==
    SaveAll(table, DirtyActivities(account.activity_window), fail_at)

\* ------------------------------------------------------------------- state
VARIABLES
    activity_entity,             \* the activity_entity table, in row id order
    now,                         \* the clock read by Local::now()
    maximum_transfer_threshold,  \* MoneyTransferProperties
    lock_impl,                   \* the AccountLock implementation wired in
    locked,                      \* Exclusive lock: account id -> holder, 0 free
    tasks,                       \* the handler tasks that serve requests
    calls_left,                  \* number of requests still to arrive
    request_amounts,             \* the amounts the requests may carry
    pc,                          \* per task: position inside send_money
    command,                     \* per task: the SendMoneyCommand
    baseline_date,               \* per task: local of send_money
    source_account,              \* per task: local of send_money
    target_account,              \* per task: local of send_money
    result,                      \* per task: how the call ended
    events,                      \* per task: port and account calls so far
    table_at_call,               \* per task: the table when the call started
    account,                     \* an account the domain operations act on
    call,                        \* the last domain operation applied to it
    response,                    \* per task: the handler's answer to its request
    SEND_MONEY_USE_CASE          \* the use case registered with the handler

vars == << activity_entity, now, maximum_transfer_threshold, lock_impl,
           locked, tasks, calls_left, request_amounts,
           pc, command, baseline_date, source_account,
           target_account, result, events, table_at_call,
           account, call, response, SEND_MONEY_USE_CASE >>

\* What no step inside send_money writes.
domain_vars == << account, call, request_amounts, response >>

\* res.status_code(StatusCode::OK)
StatusOK == 200

\* SendMoneyUseCaseImpl::new: the use case with its MoneyTransferProperties
\* (ports and lock are the same for every use case built).
SendMoneyUseCaseImpl_new(threshold) ==
    [maximum_transfer_threshold |-> threshold]

\* Variant: set replaces the value the cell holds.
OnceLock_set_replaces(cell, value) == << TRUE, Some(value) >>

\* OnceLock::set: << Ok?, the cell after >>; a cell that holds a value keeps
\* it and the call returns Err.
OnceLock_set(cell, value) ==
    IF IsNone(cell) THEN << TRUE, Some(value) >> ELSE << FALSE, cell >>
\* The answer to a request: its status (0: none was set) and what send_money
\* returned to the handler.
NoResponse == [status |-> 0, returned |-> "none"]

NoAccount == AccountImpl_new(None, 0, << >>)
NoCommand == [source_account_id |-> 0, target_account_id |-> 0, money |-> 0]
\* A domain or adapter operation applied to `account`: its arguments (money,
\* other: an account id), what it returned (result, value) and the account
\* before it.
NoCall == [op |-> "none", money |-> 0, other |-> 0, result |-> FALSE,
           value |-> 0, before |-> NoAccount]

\* SendMoneyCommand::new
SendMoneyCommand_new(source_account_id, target_account_id, money) ==
    [source_account_id |-> source_account_id,
     target_account_id |-> target_account_id, money |-> money]

Event(op, id) == [op |-> op, id |-> id]

\* The table the migrations leave: an opening deposit for each account, paid
\* in from account 3; the first lies before every baseline date, the second
\* inside the window of the first calls.
OpeningRow(rowid, timestamp, account_id, amount) ==
    [id |-> Some(rowid), timestamp |-> timestamp,
     owner_account_id |-> account_id, source_account_id |-> 3,
     target_account_id |-> account_id, amount |-> amount]

OpeningTable == << OpeningRow(1, 0, 1, 2), OpeningRow(2, StartTime, 2, 1) >>

InitCommon ==
    /\ activity_entity = OpeningTable
    /\ now = StartTime
    /\ maximum_transfer_threshold \in Thresholds
    /\ SEND_MONEY_USE_CASE = Some(SendMoneyUseCaseImpl_new(
                                      maximum_transfer_threshold))
    /\ locked = [a \in AccountIds |-> 0]
    /\ pc = [p \in Procs |-> "idle"]
    /\ command = [p \in Procs |-> NoCommand]
    /\ baseline_date = [p \in Procs |-> 0]
    /\ source_account = [p \in Procs |-> NoAccount]
    /\ target_account = [p \in Procs |-> NoAccount]
    /\ result = [p \in Procs |-> "none"]
    /\ events = [p \in Procs |-> << >>]
    /\ table_at_call = [p \in Procs |-> << >>]
    /\ account = NoAccount
    /\ call = NoCall
    /\ response = [p \in Procs |-> NoResponse]

\* main.rs wire_dependencies: NoOpAccountLock; one task, so that calls do not
\* overlap.
Init ==
    /\ InitCommon
    /\ lock_impl = "NoOp"
    /\ tasks = {1}
    /\ calls_left = MaxCalls
    /\ request_amounts = Amounts

\* ------------------------------------------------------------ account lock
\* Variant: lock_account records the task as the holder of the id.
NoOp_lock_account_holds(lk, p, account_id) == [lk EXCEPT ![account_id] = p]

\* NoOpAccountLock: lock_account and release_account do nothing.
NoOp_lock_account(lk, p, account_id) == lk
NoOp_release_account(lk, account_id) == lk

\* An AccountLock that gives exclusive access per account id: lock_account
\* blocks until the id is free, release_account frees it.
Exclusive_can_lock(lk, account_id) == lk[account_id] = 0
Exclusive_lock_account(lk, p, account_id) == [lk EXCEPT ![account_id] = p]
Exclusive_release_account(lk, account_id) == [lk EXCEPT ![account_id] = 0]

\* The calls through the AccountLock trait object: whether lock_account
\* returns, and the effect of the two calls on `locked`.
CanLock(account_id) ==
    lock_impl = "NoOp" \/ Exclusive_can_lock(locked, account_id)

lock_account(p, account_id) ==
    IF lock_impl = "NoOp" THEN NoOp_lock_account(locked, p, account_id)
    ELSE Exclusive_lock_account(locked, p, account_id)

release_account(lk, account_id) ==
    IF lock_impl = "NoOp" THEN NoOp_release_account(lk, account_id)
    ELSE Exclusive_release_account(lk, account_id)

\* ---------------------------------------------------------------- send_money
Running(p) == pc[p] \notin {"idle", "done"}

\* A request arrives: the handler builds the command and calls send_money.
Call(p, source_account_id, target_account_id, money) ==
    /\ pc[p] = "idle"
    /\ ~ IsNone(SEND_MONEY_USE_CASE)
    /\ p \in tasks
    /\ money \in request_amounts
    /\ calls_left > 0
    /\ calls_left' = calls_left - 1
    /\ pc' = [pc EXCEPT ![p] = "check_threshold"]
    /\ command' = [command EXCEPT ![p] =
          SendMoneyCommand_new(source_account_id, target_account_id, money)]
    /\ table_at_call' = [table_at_call EXCEPT ![p] = activity_entity]
    /\ response' = [response EXCEPT ![p] = NoResponse]
    /\ UNCHANGED << activity_entity, now, maximum_transfer_threshold,
                    lock_impl, locked, tasks, baseline_date,
                    source_account, target_account, result, events,
                    account, call, request_amounts,
                    SEND_MONEY_USE_CASE >>

\* check_threshold, then baseline_date = now - 10 days.
CheckThreshold(p) ==
    /\ pc[p] = "check_threshold"
    /\ events' = [events EXCEPT ![p] = Append(@, Event("check_threshold", 0))]
    /\ IF Money_is_greater_than(command[p].money, maximum_transfer_threshold)
       THEN /\ pc' = [pc EXCEPT ![p] = "done"]
            /\ result' = [result EXCEPT ![p] = "panic"]
            /\ UNCHANGED baseline_date
       ELSE /\ pc' = [pc EXCEPT ![p] = "load_source"]
            /\ baseline_date' = [baseline_date EXCEPT ![p] = now - WindowDays]
            /\ UNCHANGED result
    /\ UNCHANGED << activity_entity, now, maximum_transfer_threshold,
                    lock_impl, locked, tasks, calls_left, command, source_account,
                    target_account, table_at_call,
                    domain_vars,
                    SEND_MONEY_USE_CASE >>

\* load_account_port.load_account(command.source_account_id, baseline_date)
LoadSource(p) ==
    /\ pc[p] = "load_source"
    /\ events' = [events EXCEPT ![p] =
                     Append(@, Event("load", command[p].source_account_id))]
    /\ IF IsNone(find_by_id(command[p].source_account_id))
       THEN /\ pc' = [pc EXCEPT ![p] = "done"]
            /\ result' = [result EXCEPT ![p] = "panic"]
            /\ UNCHANGED source_account
       ELSE /\ pc' = [pc EXCEPT ![p] = "load_target"]
            /\ source_account' = [source_account EXCEPT ![p] =
                  load_account(activity_entity, command[p].source_account_id,
                               baseline_date[p])]
            /\ UNCHANGED result
    /\ UNCHANGED << activity_entity, now, maximum_transfer_threshold,
                    lock_impl, locked, tasks, calls_left, command, baseline_date,
                    target_account, table_at_call,
                    domain_vars,
                    SEND_MONEY_USE_CASE >>

\* load_account_port.load_account(command.target_account_id, baseline_date)
LoadTarget(p) ==
    /\ pc[p] = "load_target"
    /\ events' = [events EXCEPT ![p] =
                     Append(@, Event("load", command[p].target_account_id))]
    /\ IF IsNone(find_by_id(command[p].target_account_id))
       THEN /\ pc' = [pc EXCEPT ![p] = "done"]
            /\ result' = [result EXCEPT ![p] = "panic"]
            /\ UNCHANGED target_account
       ELSE /\ pc' = [pc EXCEPT ![p] = "lock_source"]
            /\ target_account' = [target_account EXCEPT ![p] =
                  load_account(activity_entity, command[p].target_account_id,
                               baseline_date[p])]
            /\ UNCHANGED result
    /\ UNCHANGED << activity_entity, now, maximum_transfer_threshold,
                    lock_impl, locked, tasks, calls_left, command, baseline_date,
                    source_account, table_at_call,
                    domain_vars,
                    SEND_MONEY_USE_CASE >>

\* Variant: the source is locked under the command's id before the ids of
\* the loaded accounts are looked at.
LockSource_before_ids(p) ==
    /\ pc[p] = "lock_source"
    /\ CanLock(command[p].source_account_id)
    /\ locked' = lock_account(p, command[p].source_account_id)
    /\ events' = [events EXCEPT ![p] =
                     Append(@, Event("lock", command[p].source_account_id))]
    /\ IF IsNone(Account_get_id(source_account[p]))
          \/ IsNone(Account_get_id(target_account[p]))
       THEN /\ pc' = [pc EXCEPT ![p] = "done"]
            /\ result' = [result EXCEPT ![p] = "panic"]
       ELSE /\ pc' = [pc EXCEPT ![p] = "withdraw"]
            /\ UNCHANGED result
    /\ UNCHANGED << activity_entity, now, maximum_transfer_threshold,
                    lock_impl, tasks, calls_left, command, baseline_date,
                    source_account, target_account, table_at_call,
                    domain_vars,
                    SEND_MONEY_USE_CASE >>

\* get_id() of both accounts (a missing id panics), then
\* account_lock.lock_account(source_account_id)
LockSource(p) ==
    /\ pc[p] = "lock_source"
    /\ IF IsNone(Account_get_id(source_account[p]))
          \/ IsNone(Account_get_id(target_account[p]))
       THEN /\ pc' = [pc EXCEPT ![p] = "done"]
            /\ result' = [result EXCEPT ![p] = "panic"]
            /\ UNCHANGED << locked, events >>
       ELSE LET source_account_id == Unwrap(Account_get_id(source_account[p]))
            IN  /\ CanLock(source_account_id)
                /\ locked' = lock_account(p, source_account_id)
                /\ events' = [events EXCEPT ![p] =
                                 Append(@, Event("lock", source_account_id))]
                /\ pc' = [pc EXCEPT ![p] = "withdraw"]
                /\ UNCHANGED result
    /\ UNCHANGED << activity_entity, now, maximum_transfer_threshold,
                    lock_impl, tasks, calls_left, command, baseline_date,
                    source_account, target_account, table_at_call,
                    domain_vars,
                    SEND_MONEY_USE_CASE >>

\* source_account.withdraw(command.money, target_account_id)
Withdraw(p) ==
    /\ pc[p] = "withdraw"
    /\ LET r == Account_withdraw(source_account[p], command[p].money,
                    Unwrap(Account_get_id(target_account[p])), now)
       IN  /\ source_account' = [source_account EXCEPT ![p] = r[2]]
           /\ events' = [events EXCEPT ![p] = Append(@,
                 Event(IF r[1] THEN "withdraw" ELSE "withdraw_rejected",
                       Unwrap(Account_get_id(source_account[p]))))]
           /\ pc' = [pc EXCEPT ![p] =
                 IF r[1] THEN "lock_target" ELSE "release_rejected"]
    /\ UNCHANGED << activity_entity, now, maximum_transfer_threshold,
                    lock_impl, locked, tasks, calls_left, command, baseline_date,
                    target_account, result, table_at_call,
                    domain_vars,
                    SEND_MONEY_USE_CASE >>

\* Variant: the rejected call returns false without releasing the source.
ReleaseRejected_without_release(p) ==
    /\ pc[p] = "release_rejected"
    /\ pc' = [pc EXCEPT ![p] = "done"]
    /\ result' = [result EXCEPT ![p] = "false"]
    /\ UNCHANGED << activity_entity, now, maximum_transfer_threshold,
                    lock_impl, locked, tasks, calls_left, command,
                    baseline_date, source_account, target_account, events,
                    table_at_call, domain_vars,
                    SEND_MONEY_USE_CASE >>

\* withdrawal failed: release_account(source_account_id); return false
ReleaseRejected(p) ==
    /\ pc[p] = "release_rejected"
    /\ LET source_account_id == Unwrap(Account_get_id(source_account[p]))
       IN  /\ locked' = release_account(locked, source_account_id)
           /\ events' = [events EXCEPT ![p] =
                            Append(@, Event("release", source_account_id))]
    /\ pc' = [pc EXCEPT ![p] = "done"]
    /\ result' = [result EXCEPT ![p] = "false"]
    /\ UNCHANGED << activity_entity, now, maximum_transfer_threshold,
                    lock_impl, tasks, calls_left, command, baseline_date,
                    source_account, target_account, table_at_call,
                    domain_vars,
                    SEND_MONEY_USE_CASE >>

\* account_lock.lock_account(target_account_id)
LockTarget(p) ==
    /\ pc[p] = "lock_target"
    /\ LET target_account_id == Unwrap(Account_get_id(target_account[p]))
       IN  /\ CanLock(target_account_id)
           /\ locked' = lock_account(p, target_account_id)
           /\ events' = [events EXCEPT ![p] =
                            Append(@, Event("lock", target_account_id))]
    /\ pc' = [pc EXCEPT ![p] = "deposit"]
    /\ UNCHANGED << activity_entity, now, maximum_transfer_threshold,
                    lock_impl, tasks, calls_left, command, baseline_date,
                    source_account, target_account, result, table_at_call,
                    domain_vars,
                    SEND_MONEY_USE_CASE >>

\* target_account.deposit(command.money, source_account_id); on false both
\* locks are released and the call returns false
Deposit(p) ==
    /\ pc[p] = "deposit"
    /\ LET source_account_id == Unwrap(Account_get_id(source_account[p]))
           target_account_id == Unwrap(Account_get_id(target_account[p]))
           r == Account_deposit(target_account[p], command[p].money,
                                source_account_id, now)
       IN  /\ target_account' = [target_account EXCEPT ![p] = r[2]]
           /\ IF r[1]
              THEN /\ events' = [events EXCEPT ![p] =
                         Append(@, Event("deposit", target_account_id))]
                   /\ pc' = [pc EXCEPT ![p] = "update_source"]
                   /\ UNCHANGED << locked, result >>
              ELSE /\ events' = [events EXCEPT ![p] = @ \o
                         << Event("deposit_rejected", target_account_id),
                            Event("release", source_account_id),
                            Event("release", target_account_id) >>]
                   /\ locked' = release_account(
                         release_account(locked, source_account_id),
                         target_account_id)
                   /\ pc' = [pc EXCEPT ![p] = "done"]
                   /\ result' = [result EXCEPT ![p] = "false"]
    /\ UNCHANGED << activity_entity, now, maximum_transfer_threshold,
                    lock_impl, tasks, calls_left, command, baseline_date,
                    source_account, table_at_call,
                    domain_vars,
                    SEND_MONEY_USE_CASE >>

\* Variant: the first update persists the target account.
UpdateSource_persists_target(p, fail_at) ==
    /\ pc[p] = "update_source"
    /\ fail_at <= Len(DirtyActivities(target_account[p].activity_window))
    /\ LET u == update_activities(activity_entity, target_account[p], fail_at)
       IN  /\ activity_entity' = u.table
           /\ events' = [events EXCEPT ![p] = Append(@,
                 Event("update", Unwrap(Account_get_id(target_account[p]))))]
           /\ IF u.panicked
              THEN /\ pc' = [pc EXCEPT ![p] = "done"]
                   /\ result' = [result EXCEPT ![p] = "panic"]
              ELSE /\ pc' = [pc EXCEPT ![p] = "update_target"]
                   /\ UNCHANGED result
    /\ UNCHANGED << now, maximum_transfer_threshold, lock_impl, locked,
                    tasks, calls_left, command, baseline_date, source_account,
                    target_account, table_at_call, domain_vars,
                    SEND_MONEY_USE_CASE >>

\* update_account_state_port.update_activities(source_account); the save of
\* the fail_at-th dirty activity fails (0: every save succeeds)
UpdateSource(p, fail_at) ==
    /\ pc[p] = "update_source"
    /\ fail_at <= Len(DirtyActivities(source_account[p].activity_window))
    /\ LET u == update_activities(activity_entity, source_account[p], fail_at)
       IN  /\ activity_entity' = u.table
           /\ events' = [events EXCEPT ![p] = Append(@,
                 Event("update", Unwrap(Account_get_id(source_account[p]))))]
           /\ IF u.panicked
              THEN /\ pc' = [pc EXCEPT ![p] = "done"]
                   /\ result' = [result EXCEPT ![p] = "panic"]
              ELSE /\ pc' = [pc EXCEPT ![p] = "update_target"]
                   /\ UNCHANGED result
    /\ UNCHANGED << now, maximum_transfer_threshold, lock_impl, locked,
                    tasks, calls_left, command, baseline_date, source_account,
                    target_account, table_at_call,
                    domain_vars,
                    SEND_MONEY_USE_CASE >>

\* update_account_state_port.update_activities(target_account)
UpdateTarget(p, fail_at) ==
    /\ pc[p] = "update_target"
    /\ fail_at <= Len(DirtyActivities(target_account[p].activity_window))
    /\ LET u == update_activities(activity_entity, target_account[p], fail_at)
       IN  /\ activity_entity' = u.table
           /\ events' = [events EXCEPT ![p] = Append(@,
                 Event("update", Unwrap(Account_get_id(target_account[p]))))]
           /\ IF u.panicked
              THEN /\ pc' = [pc EXCEPT ![p] = "done"]
                   /\ result' = [result EXCEPT ![p] = "panic"]
              ELSE /\ pc' = [pc EXCEPT ![p] = "release_source"]
                   /\ UNCHANGED result
    /\ UNCHANGED << now, maximum_transfer_threshold, lock_impl, locked,
                    tasks, calls_left, command, baseline_date, source_account,
                    target_account, table_at_call,
                    domain_vars,
                    SEND_MONEY_USE_CASE >>

\* account_lock.release_account(source_account_id)
ReleaseSource(p) ==
    /\ pc[p] = "release_source"
    /\ LET source_account_id == Unwrap(Account_get_id(source_account[p]))
       IN  /\ locked' = release_account(locked, source_account_id)
           /\ events' = [events EXCEPT ![p] =
                            Append(@, Event("release", source_account_id))]
    /\ pc' = [pc EXCEPT ![p] = "release_target"]
    /\ UNCHANGED << activity_entity, now, maximum_transfer_threshold,
                    lock_impl, tasks, calls_left, command, baseline_date,
                    source_account, target_account, result, table_at_call,
                    domain_vars,
                    SEND_MONEY_USE_CASE >>

\* account_lock.release_account(target_account_id); true
ReleaseTarget(p) ==
    /\ pc[p] = "release_target"
    /\ LET target_account_id == Unwrap(Account_get_id(target_account[p]))
       IN  /\ locked' = release_account(locked, target_account_id)
           /\ events' = [events EXCEPT ![p] =
                            Append(@, Event("release", target_account_id))]
    /\ pc' = [pc EXCEPT ![p] = "done"]
    /\ result' = [result EXCEPT ![p] = "true"]
    /\ UNCHANGED << activity_entity, now, maximum_transfer_threshold,
                    lock_impl, tasks, calls_left, command, baseline_date,
                    source_account, target_account, table_at_call,
                    domain_vars,
                    SEND_MONEY_USE_CASE >>

\* Variant: a transfer that send_money rejected is answered with a status
\* of its own.
Return_tells_rejected(p) ==
    /\ pc[p] = "done"
    /\ pc' = [pc EXCEPT ![p] = "idle"]
    /\ command' = [command EXCEPT ![p] = NoCommand]
    /\ baseline_date' = [baseline_date EXCEPT ![p] = 0]
    /\ source_account' = [source_account EXCEPT ![p] = NoAccount]
    /\ target_account' = [target_account EXCEPT ![p] = NoAccount]
    /\ result' = [result EXCEPT ![p] = "none"]
    /\ events' = [events EXCEPT ![p] = << >>]
    /\ table_at_call' = [table_at_call EXCEPT ![p] = << >>]
    /\ response' = [response EXCEPT ![p] =
          [status |-> IF result[p] = "true" THEN StatusOK
                      ELSE IF result[p] = "false" THEN 409 ELSE 0,
           returned |-> result[p]]]
    /\ UNCHANGED << activity_entity, now, maximum_transfer_threshold,
                    lock_impl, locked, tasks, calls_left,
                    account, call, request_amounts,
                    SEND_MONEY_USE_CASE >>

\* The call is over: when send_money returned, the handler drops the result
\* and sets the status OK; a panic unwinds through the handler, which sets no
\* status.  The locals are dropped and the task may serve the next request.
Return(p) ==
    /\ pc[p] = "done"
    /\ pc' = [pc EXCEPT ![p] = "idle"]
    /\ command' = [command EXCEPT ![p] = NoCommand]
    /\ baseline_date' = [baseline_date EXCEPT ![p] = 0]
    /\ source_account' = [source_account EXCEPT ![p] = NoAccount]
    /\ target_account' = [target_account EXCEPT ![p] = NoAccount]
    /\ result' = [result EXCEPT ![p] = "none"]
    /\ events' = [events EXCEPT ![p] = << >>]
    /\ table_at_call' = [table_at_call EXCEPT ![p] = << >>]
    /\ response' = [response EXCEPT ![p] =
          [status |-> IF result[p] = "panic" THEN 0 ELSE StatusOK,
           returned |-> result[p]]]
    /\ UNCHANGED << activity_entity, now, maximum_transfer_threshold,
                    lock_impl, locked, tasks, calls_left,
                    account, call, request_amounts,
                    SEND_MONEY_USE_CASE >>

\* Time passes.
Tick(d) ==
    /\ now + d <= StartTime + MaxTicks * WindowDays
    /\ now' = now + d
    /\ UNCHANGED << activity_entity, maximum_transfer_threshold, lock_impl,
                    locked, tasks, calls_left, pc, command, baseline_date,
                    source_account, target_account, result, events,
                    table_at_call,
                    domain_vars,
                    SEND_MONEY_USE_CASE >>

Next ==
    \/ \E p \in Procs, s \in AccountIds, t \in AccountIds, m \in Amounts :
          Call(p, s, t, m)
    \/ \E p \in Procs : CheckThreshold(p)
    \/ \E p \in Procs : LoadSource(p)
    \/ \E p \in Procs : LoadTarget(p)
    \/ \E p \in Procs : LockSource(p)
    \/ \E p \in Procs : Withdraw(p)
    \/ \E p \in Procs : ReleaseRejected(p)
    \/ \E p \in Procs : LockTarget(p)
    \/ \E p \in Procs : Deposit(p)
    \/ \E p \in Procs, k \in 0 .. 1 : UpdateSource(p, k)
    \/ \E p \in Procs, k \in 0 .. 1 : UpdateTarget(p, k)
    \/ \E p \in Procs : ReleaseSource(p)
    \/ \E p \in Procs : ReleaseTarget(p)
    \/ \E p \in Procs : Return(p)
    \/ \E d \in TickSteps : Tick(d)

Spec == Init /\ [][Next]_vars

\* ------------------------------------------- concurrent calls, exclusive lock
\* Two handler tasks serve one request each, with positive amounts, and the
\* AccountLock wired in gives exclusive access per account id.
InitExclusive ==
    /\ InitCommon
    /\ lock_impl = "Exclusive"
    /\ tasks = Procs
    /\ calls_left = Cardinality(Procs)
    /\ request_amounts = {m \in Amounts : Money_is_positive(m)}

SpecExclusive == InitExclusive /\ [][Next]_vars

\* A task that can take a step of send_money eventually takes it.
Step(p) ==
    \/ CheckThreshold(p) \/ LoadSource(p) \/ LoadTarget(p) \/ LockSource(p)
    \/ Withdraw(p) \/ ReleaseRejected(p) \/ LockTarget(p) \/ Deposit(p)
    \/ \E k \in 0 .. 1 : UpdateSource(p, k)
    \/ \E k \in 0 .. 1 : UpdateTarget(p, k)
    \/ ReleaseSource(p) \/ ReleaseTarget(p)

FairSpecExclusive == SpecExclusive /\ \A p \in Procs : WF_vars(Step(p))

\* ------------------------------------------ concurrent calls, shipped lock
\* Two handler tasks serve one request each at the same time, with the
\* NoOpAccountLock that main.rs wires in and amounts that are not negative;
\* each call runs to its end.
InitConcurrent ==
    /\ InitCommon
    /\ lock_impl = "NoOp"
    /\ tasks = Procs
    /\ calls_left = Cardinality(Procs)
    /\ request_amounts = {m \in Amounts : Money_is_positive_or_zero(m)}

NextConcurrent ==
    \/ \E p \in Procs, s \in AccountIds, t \in AccountIds, m \in Amounts :
          Call(p, s, t, m)
    \/ \E p \in Procs : CheckThreshold(p)
    \/ \E p \in Procs : LoadSource(p)
    \/ \E p \in Procs : LoadTarget(p)
    \/ \E p \in Procs : LockSource(p)
    \/ \E p \in Procs : Withdraw(p)
    \/ \E p \in Procs : ReleaseRejected(p)
    \/ \E p \in Procs : LockTarget(p)
    \/ \E p \in Procs : Deposit(p)
    \/ \E p \in Procs, k \in 0 .. 1 : UpdateSource(p, k)
    \/ \E p \in Procs, k \in 0 .. 1 : UpdateTarget(p, k)
    \/ \E p \in Procs : ReleaseSource(p)
    \/ \E p \in Procs : ReleaseTarget(p)
    \/ \E d \in TickSteps : Tick(d)

SpecConcurrent == InitConcurrent /\ [][NextConcurrent]_vars

\* ------------------------------------------- registration of the use case
\* The handler module from its start, before set_dependencies has run: use
\* cases that differ in their threshold may be passed to set_dependencies at
\* any time, and requests arrive before and after.
UseCases == {SendMoneyUseCaseImpl_new(t) : t \in {1, 2}}

InitRegistry ==
    /\ activity_entity = OpeningTable
    /\ now = StartTime
    /\ maximum_transfer_threshold = 0
    /\ SEND_MONEY_USE_CASE = None
    /\ lock_impl = "NoOp"
    /\ locked = [a \in AccountIds |-> 0]
    /\ tasks = {1}
    /\ calls_left = MaxCalls
    /\ request_amounts = {m \in Amounts : Money_is_positive(m) /\ m <= MaxI64}
    /\ pc = [p \in Procs |-> "idle"]
    /\ command = [p \in Procs |-> NoCommand]
    /\ baseline_date = [p \in Procs |-> 0]
    /\ source_account = [p \in Procs |-> NoAccount]
    /\ target_account = [p \in Procs |-> NoAccount]
    /\ result = [p \in Procs |-> "none"]
    /\ events = [p \in Procs |-> << >>]
    /\ table_at_call = [p \in Procs |-> << >>]
    /\ account = NoAccount
    /\ call = NoCall
    /\ response = [p \in Procs |-> NoResponse]

\* set_dependencies(smuc): SEND_MONEY_USE_CASE.set(smuc).unwrap(); result is
\* FALSE when the unwrap panics.  The threshold requests are checked against
\* is that of the use case the cell holds.
SetDependencies(smuc) ==
    LET r == OnceLock_set(SEND_MONEY_USE_CASE, smuc)
    IN  /\ SEND_MONEY_USE_CASE' = r[2]
        /\ maximum_transfer_threshold' =
               Unwrap(r[2]).maximum_transfer_threshold
        /\ call' = [op |-> "set_dependencies", money |-> 0, other |-> 0,
                    result |-> r[1], value |-> smuc,
                    before |-> SEND_MONEY_USE_CASE]
        /\ UNCHANGED << activity_entity, now, lock_impl, locked, tasks,
                        calls_left, request_amounts, pc, command,
                        baseline_date, source_account, target_account,
                        result, events, table_at_call, account, response >>

\* A request arrives while the cell is empty: SEND_MONEY_USE_CASE.get() is
\* None, the unwrap panics and the handler sets no status.
HandleUnregistered(p) ==
    /\ pc[p] = "idle"
    /\ p \in tasks
    /\ IsNone(SEND_MONEY_USE_CASE)
    /\ calls_left > 0
    /\ calls_left' = calls_left - 1
    /\ response' = [response EXCEPT ![p] =
          [status |-> 0, returned |-> "no use case"]]
    /\ UNCHANGED << activity_entity, now, maximum_transfer_threshold,
                    lock_impl, locked, tasks, request_amounts, pc, command,
                    baseline_date, source_account, target_account, result,
                    events, table_at_call, account, call,
                    SEND_MONEY_USE_CASE >>

NextRegistry ==
    \/ \E smuc \in UseCases : SetDependencies(smuc)
    \/ \E p \in Procs : HandleUnregistered(p)
    \/ \E p \in Procs, s \in AccountIds, t \in AccountIds, m \in Amounts :
          Call(p, s, t, m)
    \/ \E p \in Procs : CheckThreshold(p)
    \/ \E p \in Procs : LoadSource(p)
    \/ \E p \in Procs : LoadTarget(p)
    \/ \E p \in Procs : LockSource(p)
    \/ \E p \in Procs : Withdraw(p)
    \/ \E p \in Procs : ReleaseRejected(p)
    \/ \E p \in Procs : LockTarget(p)
    \/ \E p \in Procs : Deposit(p)
    \/ \E p \in Procs, k \in 0 .. 1 : UpdateSource(p, k)
    \/ \E p \in Procs, k \in 0 .. 1 : UpdateTarget(p, k)
    \/ \E p \in Procs : ReleaseSource(p)
    \/ \E p \in Procs : ReleaseTarget(p)
    \/ \E p \in Procs : Return(p)

SpecRegistry == InitRegistry /\ [][NextRegistry]_vars

\* --------------------------------------------- send_money over test doubles
\* The use case as its unit tests run it: the LoadAccountPort and the
\* accounts it returns are doubles, so a loaded account may come without an
\* id and its deposit may report failure.  One call is made.
AccountImpl_without_id(baseline_balance, activity_window) ==
    AccountImpl_new(None, baseline_balance, activity_window)

\* The account a LoadAccountPort double returns for an existing account.
MockAccount(account_id, date, with_id) ==
    LET loaded == load_account(activity_entity, account_id, date)
    IN  IF with_id THEN loaded
        ELSE AccountImpl_without_id(loaded.baseline_balance,
                                    loaded.activity_window)

InitMock ==
    /\ InitCommon
    /\ lock_impl = "NoOp"
    /\ tasks = {1}
    /\ calls_left = 1
    /\ request_amounts = Amounts

\* load_account_port.load_account(command.source_account_id, baseline_date)
MockLoadSource(p, with_id) ==
    /\ pc[p] = "load_source"
    /\ events' = [events EXCEPT ![p] =
                     Append(@, Event("load", command[p].source_account_id))]
    /\ IF IsNone(find_by_id(command[p].source_account_id))
       THEN /\ pc' = [pc EXCEPT ![p] = "done"]
            /\ result' = [result EXCEPT ![p] = "panic"]
            /\ UNCHANGED source_account
       ELSE /\ pc' = [pc EXCEPT ![p] = "load_target"]
            /\ source_account' = [source_account EXCEPT ![p] =
                  MockAccount(command[p].source_account_id, baseline_date[p],
                              with_id)]
            /\ UNCHANGED result
    /\ UNCHANGED << activity_entity, now, maximum_transfer_threshold,
                    lock_impl, locked, tasks, calls_left, command,
                    baseline_date, target_account, table_at_call,
                    domain_vars,
                    SEND_MONEY_USE_CASE >>

\* load_account_port.load_account(command.target_account_id, baseline_date)
MockLoadTarget(p, with_id) ==
    /\ pc[p] = "load_target"
    /\ events' = [events EXCEPT ![p] =
                     Append(@, Event("load", command[p].target_account_id))]
    /\ IF IsNone(find_by_id(command[p].target_account_id))
       THEN /\ pc' = [pc EXCEPT ![p] = "done"]
            /\ result' = [result EXCEPT ![p] = "panic"]
            /\ UNCHANGED target_account
       ELSE /\ pc' = [pc EXCEPT ![p] = "lock_source"]
            /\ target_account' = [target_account EXCEPT ![p] =
                  MockAccount(command[p].target_account_id, baseline_date[p],
                              with_id)]
            /\ UNCHANGED result
    /\ UNCHANGED << activity_entity, now, maximum_transfer_threshold,
                    lock_impl, locked, tasks, calls_left, command,
                    baseline_date, source_account, table_at_call,
                    domain_vars,
                    SEND_MONEY_USE_CASE >>

\* Variant: after a failed deposit only the source is released.
MockDeposit_keeps_target(p, ok) ==
    /\ pc[p] = "deposit"
    /\ LET source_account_id == Unwrap(Account_get_id(source_account[p]))
           target_account_id == Unwrap(Account_get_id(target_account[p]))
           r == Account_deposit(target_account[p], command[p].money,
                                source_account_id, now)
       IN  IF ok /\ r[1]
           THEN /\ target_account' = [target_account EXCEPT ![p] = r[2]]
                /\ events' = [events EXCEPT ![p] =
                      Append(@, Event("deposit", target_account_id))]
                /\ pc' = [pc EXCEPT ![p] = "update_source"]
                /\ UNCHANGED << locked, result >>
           ELSE /\ events' = [events EXCEPT ![p] = @ \o
                      << Event("deposit_rejected", target_account_id),
                         Event("release", source_account_id) >>]
                /\ locked' = release_account(locked, source_account_id)
                /\ pc' = [pc EXCEPT ![p] = "done"]
                /\ result' = [result EXCEPT ![p] = "false"]
                /\ UNCHANGED target_account
    /\ UNCHANGED << activity_entity, now, maximum_transfer_threshold,
                    lock_impl, tasks, calls_left, command, baseline_date,
                    source_account, table_at_call,
                    domain_vars,
                    SEND_MONEY_USE_CASE >>

\* target_account.deposit(command.money, source_account_id) on a double
\* that reports failure when ok is false; on failure both locks are released
\* and the call returns false
MockDeposit(p, ok) ==
    /\ pc[p] = "deposit"
    /\ LET source_account_id == Unwrap(Account_get_id(source_account[p]))
           target_account_id == Unwrap(Account_get_id(target_account[p]))
           r == Account_deposit(target_account[p], command[p].money,
                                source_account_id, now)
       IN  IF ok /\ r[1]
           THEN /\ target_account' = [target_account EXCEPT ![p] = r[2]]
                /\ events' = [events EXCEPT ![p] =
                      Append(@, Event("deposit", target_account_id))]
                /\ pc' = [pc EXCEPT ![p] = "update_source"]
                /\ UNCHANGED << locked, result >>
           ELSE /\ events' = [events EXCEPT ![p] = @ \o
                      << Event("deposit_rejected", target_account_id),
                         Event("release", source_account_id),
                         Event("release", target_account_id) >>]
                /\ locked' = release_account(
                      release_account(locked, source_account_id),
                      target_account_id)
                /\ pc' = [pc EXCEPT ![p] = "done"]
                /\ result' = [result EXCEPT ![p] = "false"]
                /\ UNCHANGED target_account
    /\ UNCHANGED << activity_entity, now, maximum_transfer_threshold,
                    lock_impl, tasks, calls_left, command, baseline_date,
                    source_account, table_at_call,
                    domain_vars,
                    SEND_MONEY_USE_CASE >>

NextMock ==
    \/ \E p \in Procs, s \in AccountIds, t \in AccountIds, m \in Amounts :
          Call(p, s, t, m)
    \/ \E p \in Procs : CheckThreshold(p)
    \/ \E p \in Procs, with_id \in BOOLEAN : MockLoadSource(p, with_id)
    \/ \E p \in Procs, with_id \in BOOLEAN : MockLoadTarget(p, with_id)
    \/ \E p \in Procs : LockSource(p)
    \/ \E p \in Procs : Withdraw(p)
    \/ \E p \in Procs : ReleaseRejected(p)
    \/ \E p \in Procs : LockTarget(p)
    \/ \E p \in Procs, ok \in BOOLEAN : MockDeposit(p, ok)
    \/ \E p \in Procs, k \in 0 .. 1 : UpdateSource(p, k)
    \/ \E p \in Procs, k \in 0 .. 1 : UpdateTarget(p, k)
    \/ \E p \in Procs : ReleaseSource(p)
    \/ \E p \in Procs : ReleaseTarget(p)
    \/ \E p \in Procs : Return(p)
    \/ \E d \in TickSteps : Tick(d)

SpecMock == InitMock /\ [][NextMock]_vars

\* ------------------------------------------------------- domain operations
\* Accounts and arguments the domain operations are applied to; MaxWindow is
\* the largest number of activities in the window of such an account.
MaxWindow == 2
DomainIds == {1, 2}
DomainBaselines == {0 - 1, 0, 2}
DomainMoney == {0 - 2, 0 - 1, 0, 1, 2, 3}
DomainActivityIds == {None, Some(7)}
DomainActivities ==
    { Activity_with_id(id, 1, st[1], st[2], 1, m) :
        id \in DomainActivityIds,
        st \in {<< 1, 2 >>, << 2, 1 >>, << 2, 3 >>}, m \in {1, 3} }
DomainWindows ==
    UNION { [1 .. n -> DomainActivities] : n \in 0 .. MaxWindow }

InitDomain ==
    /\ activity_entity = OpeningTable
    /\ now = StartTime
    /\ maximum_transfer_threshold \in Thresholds
    /\ SEND_MONEY_USE_CASE = Some(SendMoneyUseCaseImpl_new(
                                      maximum_transfer_threshold))
    /\ lock_impl = "NoOp"
    /\ locked = [a \in AccountIds |-> 0]
    /\ tasks = {}
    /\ calls_left = 0
    /\ request_amounts = {}
    /\ pc = [p \in Procs |-> "idle"]
    /\ command = [p \in Procs |-> NoCommand]
    /\ baseline_date = [p \in Procs |-> 0]
    /\ source_account = [p \in Procs |-> NoAccount]
    /\ target_account = [p \in Procs |-> NoAccount]
    /\ result = [p \in Procs |-> "none"]
    /\ events = [p \in Procs |-> << >>]
    /\ table_at_call = [p \in Procs |-> << >>]
    /\ response = [p \in Procs |-> NoResponse]
    /\ \E id \in DomainIds, b \in DomainBaselines, w \in DomainWindows :
          account = Account_with_id(id, Money_of(b), w)
    /\ call = NoCall

usecase_vars == << activity_entity, now, maximum_transfer_threshold,
                   lock_impl, locked, tasks, calls_left, request_amounts, pc,
                   command, baseline_date, source_account, target_account,
                   result, events, table_at_call, response,
                   SEND_MONEY_USE_CASE >>

\* account.withdraw(money, target_account_id)
DomainWithdraw(money, target_account_id) ==
    /\ call.op = "none"
    /\ LET r == Account_withdraw(account, money, target_account_id, now)
       IN  /\ account' = r[2]
           /\ call' = [op |-> "withdraw", money |-> money,
                       other |-> target_account_id, result |-> r[1],
                       value |-> 0, before |-> account]
    /\ UNCHANGED usecase_vars

\* account.deposit(money, source_account_id)
DomainDeposit(money, source_account_id) ==
    /\ call.op = "none"
    /\ LET r == Account_deposit(account, money, source_account_id, now)
       IN  /\ account' = r[2]
           /\ call' = [op |-> "deposit", money |-> money,
                       other |-> source_account_id, result |-> r[1],
                       value |-> 0, before |-> account]
    /\ UNCHANGED usecase_vars

\* account.calculate_balance()
DomainCalculateBalance ==
    /\ call.op = "none"
    /\ call' = [op |-> "calculate_balance", money |-> 0, other |-> 0,
                result |-> TRUE, value |-> Account_calculate_balance(account),
                before |-> account]
    /\ UNCHANGED << account, usecase_vars >>

\* account.activity_window.calculate_balance(account_id)
DomainWindowBalance(account_id) ==
    /\ call.op = "none"
    /\ call' = [op |-> "window_calculate_balance", money |-> 0,
                other |-> account_id, result |-> TRUE,
                value |-> Window_calculate_balance(account.activity_window,
                                                   account_id),
                before |-> account]
    /\ UNCHANGED << account, usecase_vars >>

\* update_account_state_port.update_activities(account): the account is
\* moved into the call; the save of the fail_at-th dirty activity fails.
DomainUpdateActivities(fail_at) ==
    /\ call.op = "none"
    /\ fail_at <= Len(DirtyActivities(account.activity_window))
    /\ LET u == update_activities(activity_entity, account, fail_at)
       IN  /\ activity_entity' = u.table
           /\ call' = [op |-> "update_activities", money |-> 0,
                       other |-> 0, result |-> ~ u.panicked, value |-> 0,
                       before |-> account]
    /\ UNCHANGED << account, now, maximum_transfer_threshold, lock_impl,
                    locked, tasks, calls_left, request_amounts, pc, command,
                    baseline_date, source_account, target_account, result,
                    events, table_at_call, response,
                    SEND_MONEY_USE_CASE >>

NextDomain ==
    \/ \E m \in DomainMoney, t \in AccountIds : DomainWithdraw(m, t)
    \/ \E m \in DomainMoney, t \in AccountIds : DomainDeposit(m, t)
    \/ DomainCalculateBalance
    \/ \E a \in AccountIds : DomainWindowBalance(a)
    \/ \E k \in 0 .. MaxWindow : DomainUpdateActivities(k)

SpecDomain == InitDomain /\ [][NextDomain]_vars

\* ------------------------------------------------------- Money operations
\* The operations of Money applied to amounts built by Money::of from i128
\* values on both sides of zero and of the i64 range.
MoneyValues ==
    {MinI128, MinI64 - 1, 0 - 2, 0 - 1, 0, 1, 2, MaxI64 + 1, MaxI128}

InitMoney ==
    /\ InitCommon
    /\ lock_impl = "NoOp"
    /\ tasks = {}
    /\ calls_left = 0
    /\ request_amounts = {}

\* One operation of Money on Money::of(a) and Money::of(b), recorded with its
\* operands and what it returned.
MoneyCall(op, a, b, returned) ==
    /\ call.op = "none"
    /\ call' = [op |-> op, money |-> Money_of(a), other |-> Money_of(b),
                result |-> TRUE, value |-> returned, before |-> account]
    /\ UNCHANGED << account, usecase_vars >>

MoneyAdd(a, b) ==
    MoneyCall("add", a, b, Money_add(Money_of(a), Money_of(b)))
MoneySubstract(a, b) ==
    MoneyCall("substract", a, b, Money_substract(Money_of(a), Money_of(b)))
MoneyMinus(a, b) ==
    MoneyCall("minus", a, b, Money_minus(Money_of(a), Money_of(b)))
MoneyPlus(a, b) ==
    MoneyCall("plus", a, b, Money_plus(Money_of(a), Money_of(b)))
MoneyNegate(a) ==
    MoneyCall("negate", a, a, Money_negate(Money_of(a)))
MoneyIsGreaterThanOrEqualTo(a, b) ==
    MoneyCall("is_greater_than_or_equal_to", a, b,
              Money_is_greater_than_or_equal_to(Money_of(a), Money_of(b)))
MoneyIsPositive(a) ==
    MoneyCall("is_positive", a, a, Money_is_positive(Money_of(a)))
MoneyIsNegative(a) ==
    MoneyCall("is_negative", a, a, Money_is_negative(Money_of(a)))
MoneyIsPositiveOrZero(a) ==
    MoneyCall("is_positive_or_zero", a, a,
              Money_is_positive_or_zero(Money_of(a)))

NextMoney ==
    \/ \E a \in MoneyValues, b \in MoneyValues : MoneyAdd(a, b)
    \/ \E a \in MoneyValues, b \in MoneyValues : MoneySubstract(a, b)
    \/ \E a \in MoneyValues, b \in MoneyValues : MoneyMinus(a, b)
    \/ \E a \in MoneyValues, b \in MoneyValues : MoneyPlus(a, b)
    \/ \E a \in MoneyValues : MoneyNegate(a)
    \/ \E a \in MoneyValues, b \in MoneyValues :
          MoneyIsGreaterThanOrEqualTo(a, b)
    \/ \E a \in MoneyValues : MoneyIsPositive(a)
    \/ \E a \in MoneyValues : MoneyIsNegative(a)
    \/ \E a \in MoneyValues : MoneyIsPositiveOrZero(a)

SpecMoney == InitMoney /\ [][NextMoney]_vars

\* ------------------------------------------------------ window operations
\* Windows of activities with different timestamps, in any order, and the
\* operations of ActivityWindow applied to them.
WindowTimestamps == {1, 2, 3}
WindowActivities ==
    { Activity_with_id(None, 1, st[1], st[2], ts, 1) :
        st \in {<< 1, 2 >>, << 2, 1 >>}, ts \in WindowTimestamps }
TimedWindows ==
    UNION { [1 .. n -> WindowActivities] : n \in 0 .. MaxWindow }

InitWindow ==
    /\ activity_entity = OpeningTable
    /\ now = StartTime
    /\ maximum_transfer_threshold \in Thresholds
    /\ SEND_MONEY_USE_CASE = Some(SendMoneyUseCaseImpl_new(
                                      maximum_transfer_threshold))
    /\ lock_impl = "NoOp"
    /\ locked = [a \in AccountIds |-> 0]
    /\ tasks = {}
    /\ calls_left = 0
    /\ request_amounts = {}
    /\ pc = [p \in Procs |-> "idle"]
    /\ command = [p \in Procs |-> NoCommand]
    /\ baseline_date = [p \in Procs |-> 0]
    /\ source_account = [p \in Procs |-> NoAccount]
    /\ target_account = [p \in Procs |-> NoAccount]
    /\ result = [p \in Procs |-> "none"]
    /\ events = [p \in Procs |-> << >>]
    /\ table_at_call = [p \in Procs |-> << >>]
    /\ response = [p \in Procs |-> NoResponse]
    /\ \E w \in TimedWindows : account = Account_with_id(1, Money_of(0), w)
    /\ call = NoCall

\* account.activity_window.get_start_timestamp()
WindowGetStartTimestamp ==
    /\ call.op = "none"
    /\ LET r == Window_get_start_timestamp(account.activity_window)
       IN  call' = [op |-> "get_start_timestamp", money |-> 0, other |-> 0,
                    result |-> ~ IsNone(r), value |-> UnwrapOr(r, 0),
                    before |-> account]
    /\ UNCHANGED << account, usecase_vars >>

\* account.activity_window.get_end_timestamp()
WindowGetEndTimestamp ==
    /\ call.op = "none"
    /\ LET r == Window_get_end_timestamp(account.activity_window)
       IN  call' = [op |-> "get_end_timestamp", money |-> 0, other |-> 0,
                    result |-> ~ IsNone(r), value |-> UnwrapOr(r, 0),
                    before |-> account]
    /\ UNCHANGED << account, usecase_vars >>

\* account.activity_window.add_activity(activity)
WindowAddActivity(activity) ==
    /\ call.op = "none"
    /\ account' = [account EXCEPT !.activity_window =
                       Window_add_activity(@, activity)]
    /\ call' = [op |-> "add_activity", money |-> 0, other |-> 0,
                result |-> TRUE, value |-> activity, before |-> account]
    /\ UNCHANGED usecase_vars

NextWindow ==
    \/ WindowGetStartTimestamp
    \/ WindowGetEndTimestamp
    \/ \E a \in AccountIds : DomainWindowBalance(a)
    \/ \E activity \in WindowActivities : WindowAddActivity(activity)

SpecWindow == InitWindow /\ [][NextWindow]_vars

\* ------------------------------------------------------------ load_account
\* load_account applied to a table the program may have written: rows in
\* insertion order with their row ids, each owned by its source or by its
\* target, timestamps not decreasing, amounts within the column.  MaxRows is
\* the largest number of rows of such a table.
MaxRows == 2
StoreTimestamps == {0, 2}
StoreDates == 0 .. 3
StoreAmounts == {MinI64, 1, MaxI64}
StoreRows ==
    { [id |-> None, timestamp |-> ts, owner_account_id |-> o,
       source_account_id |-> IF out THEN o ELSE 3 - o,
       target_account_id |-> IF out THEN 3 - o ELSE o, amount |-> m] :
        ts \in StoreTimestamps, o \in ExistingAccounts, out \in BOOLEAN,
        m \in StoreAmounts }
StoreTables ==
    UNION { { [i \in 1 .. n |-> [f[i] EXCEPT !.id = Some(i)]] :
                f \in { g \in [1 .. n -> StoreRows] :
                          \A i \in 1 .. n - 1 :
                             g[i].timestamp <= g[i + 1].timestamp } } :
            n \in 0 .. MaxRows }

InitStore ==
    /\ activity_entity \in StoreTables
    /\ now = StartTime
    /\ maximum_transfer_threshold \in Thresholds
    /\ SEND_MONEY_USE_CASE = Some(SendMoneyUseCaseImpl_new(
                                      maximum_transfer_threshold))
    /\ lock_impl = "NoOp"
    /\ locked = [a \in AccountIds |-> 0]
    /\ tasks = {}
    /\ calls_left = 0
    /\ request_amounts = {}
    /\ pc = [p \in Procs |-> "idle"]
    /\ command = [p \in Procs |-> NoCommand]
    /\ baseline_date = [p \in Procs |-> 0]
    /\ source_account = [p \in Procs |-> NoAccount]
    /\ target_account = [p \in Procs |-> NoAccount]
    /\ result = [p \in Procs |-> "none"]
    /\ events = [p \in Procs |-> << >>]
    /\ table_at_call = [p \in Procs |-> << >>]
    /\ response = [p \in Procs |-> NoResponse]
    /\ account = NoAccount
    /\ call = NoCall

\* load_account_port.load_account(account_id, date): panics when the
\* account has no row (result FALSE), returns the account otherwise.
StoreLoadAccount(account_id, date) ==
    /\ call.op = "none"
    /\ IF IsNone(find_by_id(account_id))
       THEN /\ call' = [op |-> "load_account", money |-> 0,
                        other |-> account_id, result |-> FALSE,
                        value |-> date, before |-> account]
            /\ UNCHANGED account
       ELSE /\ account' = load_account(activity_entity, account_id, date)
            /\ call' = [op |-> "load_account", money |-> 0,
                        other |-> account_id, result |-> TRUE,
                        value |-> date, before |-> account]
    /\ UNCHANGED usecase_vars

NextStore ==
    \E a \in AccountIds, d \in StoreDates : StoreLoadAccount(a, d)

SpecStore == InitStore /\ [][NextStore]_vars

\* ------------------------------------------------------------------ claims
\* The calls of one kind a task has made so far, as the ids they were made
\* with.
IdsOf(p, op) ==
    LET es == SelectSeq(events[p], LAMBDA e : e.op = op)
    IN  [i \in 1 .. Len(es) |-> es[i].id]

Has(p, op) == \E i \in 1 .. Len(events[p]) : events[p][i].op = op

\* The balance of an account as loaded from `table` with a baseline date.
BalanceAt(table, account_id, date) ==
    Account_calculate_balance(load_account(table, account_id, date))

\* The rows a call has added to the table since it started.
RowsAdded(p) ==
    SubSeq(activity_entity, Len(table_at_call[p]) + 1, Len(activity_entity))

\* C1: whenever send_money returns true, the source's balance as reloaded
\* from the store is its pre-call balance minus the amount and the target's
\* is its pre-call balance plus the amount, for every command.
C1_TransferPostcondition ==
    \A p \in Procs :
        result[p] = "true" =>
            LET c == command[p]
                d == baseline_date[p]
            IN  /\ BalanceAt(activity_entity, c.source_account_id, d)
                     = BalanceAt(table_at_call[p], c.source_account_id, d)
                         - c.money
                /\ BalanceAt(activity_entity, c.target_account_id, d)
                     = BalanceAt(table_at_call[p], c.target_account_id, d)
                         + c.money

\* C2: a call whose withdrawal is rejected returns false, never invokes the
\* update port and adds no row, and makes exactly one lock_account and one
\* release_account call, both with the source id (none for the target).
C2_RejectedWithdrawal ==
    \A p \in Procs :
        (pc[p] = "done" /\ Has(p, "withdraw_rejected")) =>
            /\ result[p] = "false"
            /\ IdsOf(p, "update") = << >>
            /\ activity_entity = table_at_call[p]
            /\ IdsOf(p, "lock") = << command[p].source_account_id >>
            /\ IdsOf(p, "release") = << command[p].source_account_id >>

C2_Witness ==
    \E p \in Procs :
        /\ pc[p] = "done"
        /\ Has(p, "withdraw_rejected")
        /\ command[p].source_account_id # command[p].target_account_id

\* The calls of a send_money that returns true, in order.
SuccessTrace(c) ==
    << Event("check_threshold", 0),
       Event("load", c.source_account_id),
       Event("load", c.target_account_id),
       Event("lock", c.source_account_id),
       Event("withdraw", c.source_account_id),
       Event("lock", c.target_account_id),
       Event("deposit", c.target_account_id),
       Event("update", c.source_account_id),
       Event("update", c.target_account_id),
       Event("release", c.source_account_id),
       Event("release", c.target_account_id) >>

\* C3: a send_money that returns true has made its calls in exactly this
\* order: threshold check, load source, load target, lock source, withdraw,
\* lock target, deposit, update source, update target, release source,
\* release target.
C3_EventOrder ==
    \A p \in Procs :
        result[p] = "true" => events[p] = SuccessTrace(command[p])

C3_Witness ==
    \E p \in Procs :
        /\ result[p] = "true"
        /\ command[p].source_account_id # command[p].target_account_id

\* C4: when a call has ended, whatever its outcome, it has released every
\* lock it acquired, in the order it acquired them.
C4_LocksReleased ==
    \A p \in Procs :
        pc[p] = "done" => IdsOf(p, "release") = IdsOf(p, "lock")

\* C5: a send_money that returns true has called lock_account twice,
\* release_account twice and the update port twice (once per account) and
\* has added exactly two rows, one owned by the source and one owned by the
\* target, both with the command's source, target and amount; the rows that
\* were in the table before are not inserted again.
C5_SuccessEffects ==
    \A p \in Procs :
        result[p] = "true" =>
            LET c == command[p]
                added == RowsAdded(p)
            IN  /\ Len(IdsOf(p, "lock")) = 2
                /\ Len(IdsOf(p, "release")) = 2
                /\ IdsOf(p, "update")
                     = << c.source_account_id, c.target_account_id >>
                /\ SubSeq(activity_entity, 1, Len(table_at_call[p]))
                     = table_at_call[p]
                /\ Len(added) = 2
                /\ added[1].owner_account_id = c.source_account_id
                /\ added[2].owner_account_id = c.target_account_id
                /\ \A i \in 1 .. 2 :
                      /\ added[i].source_account_id = c.source_account_id
                      /\ added[i].target_account_id = c.target_account_id
                      /\ added[i].amount = c.money

\* C6: between non-overlapping send_money calls, whatever amounts they
\* carried, every account's persisted balance is non-negative.
C6_NonNegativeBalances ==
    (\A p \in Procs : pc[p] \in {"idle", "done"}) =>
        \A a \in ExistingAccounts :
            BalanceAt(activity_entity, a, now - WindowDays) >= 0

\* C7: with an exclusive account lock, no interleaving of concurrent
\* send_money calls with positive amounts drives an account's persisted
\* balance below zero.
C7_NoOverdraft ==
    \A a \in ExistingAccounts :
        BalanceAt(activity_entity, a, now - WindowDays) >= 0

\* C8: with a blocking account lock and fair scheduling, every started
\* send_money call eventually ends.
C8_Termination ==
    \A p \in Procs : (pc[p] = "check_threshold") ~> (pc[p] = "done")

\* C9: a call whose amount is greater than maximum_transfer_threshold ends
\* in a fatal error right after the threshold check, with no account loaded,
\* no lock taken and no row added; any other amount, the threshold itself
\* included, passes the check and goes on to load the source account.
C9_Threshold ==
    \A p \in Procs :
        pc[p] \notin {"idle", "check_threshold"} =>
            IF command[p].money > maximum_transfer_threshold
            THEN /\ pc[p] = "done"
                 /\ result[p] = "panic"
                 /\ events[p] = << Event("check_threshold", 0) >>
                 /\ activity_entity = table_at_call[p]
            ELSE /\ Len(events[p]) >= 1
                 /\ Len(events[p]) = 1 =>
                       (pc[p] = "load_source" /\ result[p] = "none")
                 /\ Len(events[p]) >= 2 =>
                       events[p][2] = Event("load", command[p].source_account_id)

C9_Witness ==
    \E p \in Procs :
        /\ command[p].money > maximum_transfer_threshold
        /\ pc[p] = "done"
        /\ result[p] = "panic"

\* C10: withdraw returns true if and only if calculate_balance() minus the
\* money is greater than or equal to zero.
C10_WithdrawIff ==
    call.op = "withdraw" =>
        (call.result <=> Account_calculate_balance(call.before) - call.money >= 0)

C10_Witness ==
    /\ call.op = "withdraw"
    /\ call.result
    /\ Account_calculate_balance(call.before) - call.money = 0
    /\ call.money > 0

\* The entries of a window that an appended activity comes after.
Earlier(window) == SubSeq(window, 1, Len(window) - 1)

\* C11: when withdraw returns false the account is unchanged: the window has
\* the same entries in the same order and calculate_balance() returns the
\* same value.
C11_RejectedWithdrawUnchanged ==
    (call.op = "withdraw" /\ ~ call.result) =>
        /\ Len(account.activity_window) = Len(call.before.activity_window)
        /\ account.activity_window = call.before.activity_window
        /\ Account_calculate_balance(account)
             = Account_calculate_balance(call.before)
        /\ account = call.before

C11_Witness ==
    /\ call.op = "withdraw"
    /\ ~ call.result
    /\ Len(call.before.activity_window) = 2
    /\ call.money > 0

\* The activity a withdrawal of `money` to `target_account_id` leaves last
\* in the window, and the window in front of it.
WithdrawAppended(target_account_id, money) ==
    LET id == Unwrap(call.before.id)
        w == account.activity_window
    IN  /\ Len(w) = Len(call.before.activity_window) + 1
        /\ Earlier(w) = call.before.activity_window
        /\ IsNone(w[Len(w)].id)
        /\ w[Len(w)].owner_account_id = id
        /\ w[Len(w)].source_account_id = id
        /\ w[Len(w)].target_account_id = target_account_id
        /\ w[Len(w)].money = money
        /\ account.id = call.before.id
        /\ account.baseline_balance = call.before.baseline_balance

\* C12 as stated: for every money and every target_account_id, a withdraw
\* that returns true appends exactly one activity with no id, owner = source
\* = the account's id, the given target and money, leaves the earlier
\* entries unchanged and lowers calculate_balance() by the money.
C12_WithdrawAppendsAnyTarget ==
    (call.op = "withdraw" /\ call.result) =>
        /\ WithdrawAppended(call.other, call.money)
        /\ Account_calculate_balance(account)
             = Account_calculate_balance(call.before) - call.money

\* C12 amended: the same, except that calculate_balance() is lowered by the
\* money only when target_account_id is another account; a withdrawal to the
\* account's own id leaves calculate_balance() unchanged.
C12_WithdrawAppends ==
    (call.op = "withdraw" /\ call.result) =>
        /\ WithdrawAppended(call.other, call.money)
        /\ Account_calculate_balance(account)
             = IF call.other = Unwrap(call.before.id)
               THEN Account_calculate_balance(call.before)
               ELSE Account_calculate_balance(call.before) - call.money

C12_Witness ==
    /\ call.op = "withdraw"
    /\ call.result
    /\ call.other # Unwrap(call.before.id)
    /\ call.money > 0
    /\ Len(call.before.activity_window) = 2

\* The activity a deposit of `money` from `source_account_id` leaves last in
\* the window, and the window in front of it.
DepositAppended(source_account_id, money) ==
    LET id == Unwrap(call.before.id)
        w == account.activity_window
    IN  /\ Len(w) = Len(call.before.activity_window) + 1
        /\ Earlier(w) = call.before.activity_window
        /\ IsNone(w[Len(w)].id)
        /\ w[Len(w)].owner_account_id = id
        /\ w[Len(w)].target_account_id = id
        /\ w[Len(w)].source_account_id = source_account_id
        /\ w[Len(w)].money = money
        /\ account.id = call.before.id
        /\ account.baseline_balance = call.before.baseline_balance

\* C13 as stated: for every money of any sign and every source_account_id,
\* deposit returns true, appends exactly one activity with no id, owner =
\* target = the account's id and the given source, and raises
\* calculate_balance() by the money.
C13_DepositAppendsAnySource ==
    call.op = "deposit" =>
        /\ call.result
        /\ DepositAppended(call.other, call.money)
        /\ Account_calculate_balance(account)
             = Account_calculate_balance(call.before) + call.money

\* C13 amended: the same, except that calculate_balance() is raised by the
\* money only when source_account_id is another account; a deposit from the
\* account's own id leaves calculate_balance() unchanged.
C13_DepositAppends ==
    call.op = "deposit" =>
        /\ call.result
        /\ DepositAppended(call.other, call.money)
        /\ Account_calculate_balance(account)
             = IF call.other = Unwrap(call.before.id)
               THEN Account_calculate_balance(call.before)
               ELSE Account_calculate_balance(call.before) + call.money

C13_Witness ==
    /\ call.op = "deposit"
    /\ call.result
    /\ call.other # Unwrap(call.before.id)
    /\ call.money < 0
    /\ Len(call.before.activity_window) = 2

\* C14: for every baseline balance and every window, the empty one
\* included, Account.calculate_balance() is baseline_balance plus
\* activity_window.calculate_balance(id) for the account's own id.
C14_AccountBalance ==
    call.op = "calculate_balance" =>
        call.value = call.before.baseline_balance
                       + Window_calculate_balance(call.before.activity_window,
                                                  Unwrap(call.before.id))

C14_Witness ==
    /\ call.op = "calculate_balance"
    /\ call.before.baseline_balance # 0
    /\ Len(call.before.activity_window) = 2
    /\ call.value # call.before.baseline_balance

\* The sum of the money of the activities of `window`.
SumMoney(window) ==
    LET idx == 1 .. Len(window)
        sum[S \in SUBSET idx] ==
            IF S = {} THEN 0
            ELSE LET i == CHOOSE j \in S : TRUE
                 IN  window[i].money + sum[S \ {i}]
    IN  sum[idx]

\* The windows with the activities of `window` in another order.
Reorderings(window) ==
    LET n == Len(window)
        perms == {f \in [1 .. n -> 1 .. n] : \A i \in 1 .. n :
                                               \E j \in 1 .. n : f[j] = i}
    IN  {[i \in 1 .. n |-> window[f[i]]] : f \in perms}

\* C15: ActivityWindow.calculate_balance(account_id) is the sum of the money
\* of the activities whose target is account_id minus the sum of the money
\* of those whose source is account_id; the other activities contribute
\* nothing and the order of the activities does not matter.
C15_WindowBalance ==
    call.op = "window_calculate_balance" =>
        LET w == call.before.activity_window
            named == SelectSeq(w, LAMBDA a : a.target_account_id = call.other
                                             \/ a.source_account_id = call.other)
        IN  /\ call.value
                 = SumMoney(SelectSeq(w,
                       LAMBDA a : a.target_account_id = call.other))
                     - SumMoney(SelectSeq(w,
                         LAMBDA a : a.source_account_id = call.other))
            /\ call.value = Window_calculate_balance(named, call.other)
            /\ \A v \in Reorderings(w) :
                  Window_calculate_balance(v, call.other) = call.value

C15_Witness ==
    /\ call.op = "window_calculate_balance"
    /\ call.value < 0
    /\ LET w == call.before.activity_window
       IN  /\ Len(w) = 2
           /\ w[1] # w[2]
           /\ \E i \in 1 .. 2 : /\ w[i].source_account_id # call.other
                                 /\ w[i].target_account_id # call.other

\* C16: update_activities saves exactly the activities of the window that
\* have no id, one insert per such activity in window order (up to the one
\* whose save fails, if any), inserts nothing for an activity that has an
\* id and changes no earlier row; with no dirty activity it changes nothing.
C16_UpdateSavesDirty ==
    call.op = "update_activities" =>
        LET w == call.before.activity_window
            dirty == SelectSeq(w, LAMBDA a : IsNone(a.id))
            old == Len(OpeningTable)
            added == SubSeq(activity_entity, old + 1, Len(activity_entity))
        IN  /\ SubSeq(activity_entity, 1, old) = OpeningTable
            /\ Len(added) <= Len(dirty)
            /\ call.result => Len(added) = Len(dirty)
            /\ dirty = << >> => activity_entity = OpeningTable
            /\ \A k \in 1 .. Len(added) :
                  /\ added[k].id = Some(old + k)
                  /\ added[k].owner_account_id = dirty[k].owner_account_id
                  /\ added[k].source_account_id = dirty[k].source_account_id
                  /\ added[k].target_account_id = dirty[k].target_account_id
                  /\ added[k].timestamp = dirty[k].timestamp
                  /\ (dirty[k].money >= MinI64 /\ dirty[k].money <= MaxI64)
                        => added[k].amount = dirty[k].money

C16_Witness ==
    /\ call.op = "update_activities"
    /\ call.result
    /\ Len(activity_entity) = Len(OpeningTable) + 1
    /\ LET w == call.before.activity_window
       IN  /\ Len(w) = 2
           /\ ~ IsNone(w[1].id)
           /\ IsNone(w[2].id)

\* The sum of the amounts of the rows of `rows`.
SumAmounts(rows) ==
    LET idx == 1 .. Len(rows)
        sum[S \in SUBSET idx] ==
            IF S = {} THEN 0
            ELSE LET i == CHOOSE j \in S : TRUE
                 IN  rows[i].amount + sum[S \ {i}]
    IN  sum[idx]

\* C17: for every existing account and every baseline_date, the window of
\* the loaded account holds exactly the stored activities the account owns
\* with timestamp at or after baseline_date, each with its id; its baseline
\* balance is the sum of its owned deposits strictly before baseline_date
\* minus the sum of its owned withdrawals strictly before baseline_date; so
\* calculate_balance() is all owned deposits minus all owned withdrawals,
\* the same for every baseline_date.
C17_LoadAccount ==
    (call.op = "load_account" /\ call.result) =>
        LET id == call.other
            owned == SelectSeq(activity_entity,
                               LAMBDA r : r.owner_account_id = id)
            since == SelectSeq(owned, LAMBDA r : r.timestamp >= call.value)
            until == SelectSeq(owned, LAMBDA r : r.timestamp < call.value)
            Deposits(rows) ==
                SelectSeq(rows, LAMBDA r : r.target_account_id = id)
            Withdrawals(rows) ==
                SelectSeq(rows, LAMBDA r : r.source_account_id = id)
            total == SumAmounts(Deposits(owned))
                       - SumAmounts(Withdrawals(owned))
        IN  /\ account.id = Some(id)
            /\ account.activity_window
                 = [i \in 1 .. Len(since) |->
                      Activity_with_id(since[i].id, since[i].owner_account_id,
                                       since[i].source_account_id,
                                       since[i].target_account_id,
                                       since[i].timestamp, since[i].amount)]
            /\ account.baseline_balance
                 = SumAmounts(Deposits(until))
                     - SumAmounts(Withdrawals(until))
            /\ Account_calculate_balance(account) = total
            /\ \A d \in StoreDates :
                  BalanceAt(activity_entity, id, d) = total

\* C18: when the source or the target account of a command does not exist,
\* the call ends in a fatal error (it does not return false), acquires no
\* lock and persists nothing, even when the other account exists and the
\* source has sufficient funds.
C18_AccountNotFound ==
    \A p \in Procs :
        (/\ pc[p] = "done"
         /\ \/ command[p].source_account_id \notin ExistingAccounts
            \/ command[p].target_account_id \notin ExistingAccounts) =>
            /\ result[p] = "panic"
            /\ IdsOf(p, "lock") = << >>
            /\ IdsOf(p, "update") = << >>
            /\ activity_entity = table_at_call[p]
            /\ ~ Has(p, "withdraw")
            /\ \/ command[p].money > maximum_transfer_threshold
               \/ events[p][Len(events[p])].op = "load"

C18_Witness ==
    \E p \in Procs :
        /\ pc[p] = "done"
        /\ result[p] = "panic"
        /\ command[p].source_account_id = 1
        /\ command[p].target_account_id \notin ExistingAccounts
        /\ command[p].money = 1
        /\ Account_calculate_balance(source_account[p]) >= 1
        /\ events[p][Len(events[p])]
             = Event("load", command[p].target_account_id)

\* C19: when either loaded account has no id, the call ends in a fatal
\* error before lock_account is called for any account: no lock is held
\* and nothing is persisted.
C19_MissingAccountId ==
    \A p \in Procs :
        (/\ pc[p] \notin {"idle", "check_threshold", "load_source",
                          "load_target", "lock_source"}
         /\ Len(IdsOf(p, "load")) = 2
         /\ \/ IsNone(Account_get_id(source_account[p]))
            \/ IsNone(Account_get_id(target_account[p]))) =>
            /\ pc[p] = "done"
            /\ result[p] = "panic"
            /\ IdsOf(p, "lock") = << >>
            /\ IdsOf(p, "update") = << >>
            /\ locked = [a \in AccountIds |-> 0]
            /\ activity_entity = table_at_call[p]

C19_Witness ==
    \E p \in Procs :
        /\ pc[p] = "done"
        /\ result[p] = "panic"
        /\ Len(IdsOf(p, "load")) = 2
        /\ ~ IsNone(Account_get_id(source_account[p]))
        /\ IsNone(Account_get_id(target_account[p]))

\* C20: when the target's deposit reports failure after the source's
\* withdrawal succeeded, the call releases the source lock, then the target
\* lock, returns false and never invokes the update port: the withdrawal
\* activity created in memory is not persisted.
C20_RejectedDeposit ==
    \A p \in Procs :
        Has(p, "deposit_rejected") =>
            LET n == Len(events[p])
                c == command[p]
            IN  /\ pc[p] = "done"
                /\ result[p] = "false"
                /\ SubSeq(events[p], n - 2, n)
                     = << Event("deposit_rejected", c.target_account_id),
                          Event("release", c.source_account_id),
                          Event("release", c.target_account_id) >>
                /\ IdsOf(p, "lock")
                     = << c.source_account_id, c.target_account_id >>
                /\ IdsOf(p, "release") = IdsOf(p, "lock")
                /\ IdsOf(p, "update") = << >>
                /\ activity_entity = table_at_call[p]

C20_Witness ==
    \E p \in Procs :
        /\ Has(p, "deposit_rejected")
        /\ Has(p, "withdraw")
        /\ command[p].source_account_id # command[p].target_account_id
        /\ DirtyActivities(source_account[p].activity_window) # << >>

\* C28: whenever send_money returns, whether true or false, the handler
\* answers with status 200: a transfer rejected for insufficient funds gets
\* the same answer as a successful one.
C28_AlwaysOK ==
    \A p \in Procs :
        response[p].returned \in {"true", "false"} =>
            response[p].status = StatusOK

C28_Witness ==
    \E p \in Procs :
        /\ response[p].returned = "false"
        /\ response[p].status = StatusOK
        /\ activity_entity = OpeningTable

\* A transfer that is past update_activities(source) and has not completed
\* update_activities(target): about to make the second call, or stopped in
\* it by a fatal error.
BetweenUpdates(p) ==
    \/ pc[p] = "update_target"
    \/ /\ pc[p] = "done"
       /\ result[p] = "panic"
       /\ Len(IdsOf(p, "update")) = 2

\* C21: a transfer that stops after update_activities(source) completed and
\* before update_activities(target) completed has stored the source's
\* withdrawal and not the target's deposit; the opposite partial state, the
\* deposit stored without the withdrawal, is never reached.
C21_PartialPersist ==
    \A p \in Procs :
        LET c == command[p]
            added == RowsAdded(p)
            w == source_account[p].activity_window
        IN  /\ BetweenUpdates(p) =>
                  /\ Len(added) = 1
                  /\ added[1].owner_account_id = c.source_account_id
                  /\ added[1].source_account_id = c.source_account_id
                  /\ added[1].target_account_id = c.target_account_id
                  /\ added[1].timestamp = w[Len(w)].timestamp
                  /\ (c.money >= MinI64 /\ c.money <= MaxI64)
                        => added[1].amount = c.money
            /\ (pc[p] # "idle" /\ Len(added) >= 1) =>
                  /\ added[1].owner_account_id = c.source_account_id
                  /\ added[1].source_account_id = c.source_account_id
                  /\ Len(added) <= 2
                  /\ Len(added) = 2 =>
                        /\ added[2].owner_account_id = c.target_account_id
                        /\ added[2].target_account_id = c.target_account_id

C21_Witness ==
    \E p \in Procs :
        /\ pc[p] = "done"
        /\ result[p] = "panic"
        /\ Len(IdsOf(p, "update")) = 2
        /\ Len(RowsAdded(p)) = 1
        /\ command[p].source_account_id # command[p].target_account_id

\* C23: the stored rows only grow: every step keeps every row that was in
\* the table, in place and with the same owner, source, target, timestamp
\* and amount; loading an account, a rejected transfer and a transfer
\* ending in a fatal error remove and change nothing.
C23_RowsOnlyGrow ==
    [][/\ Len(activity_entity') >= Len(activity_entity)
       /\ SubSeq(activity_entity', 1, Len(activity_entity)) = activity_entity
      ]_vars

C23_Witness ==
    \E p \in Procs :
        /\ pc[p] = "done"
        /\ result[p] = "false"
        /\ Len(activity_entity) = Len(OpeningTable) + 2
        /\ SubSeq(activity_entity, 1, Len(OpeningTable)) = OpeningTable

\* C24: for every amount the use case accepts, the activities a transfer
\* has written, read back by load_account, carry the amount of the command:
\* storing and loading neither truncates nor changes the amount.
C24_AmountRoundTrip ==
    \A p \in Procs :
        result[p] = "true" =>
            LET c == command[p]
                src == load_account(activity_entity, c.source_account_id,
                                    baseline_date[p]).activity_window
                tgt == load_account(activity_entity, c.target_account_id,
                                    baseline_date[p]).activity_window
            IN  /\ src # << >>
                /\ tgt # << >>
                /\ src[Len(src)].money = c.money
                /\ tgt[Len(tgt)].money = c.money

\* A task is between lock_account and release_account for an account id.
InCritical(p, account_id) ==
    Len(SelectSeq(events[p], LAMBDA e : e = Event("lock", account_id)))
      > Len(SelectSeq(events[p], LAMBDA e : e = Event("release", account_id)))

\* C22: with the NoOpAccountLock that is wired in, lock_account excludes
\* nobody: a task between lock_account and release_account for an account
\* id is never registered as its holder, and a task that reaches
\* lock_account is never made to wait, so that two calls can be inside the
\* same account's section at once (the witness: both have withdrawn from
\* one source whose balance covers only one of the withdrawals).
C22_NoMutualExclusion ==
    /\ \A p \in Procs, a \in AccountIds : InCritical(p, a) => locked[a] = 0
    /\ \A p \in Procs :
          /\ pc[p] = "lock_source" => CanLock(command[p].source_account_id)
          /\ pc[p] = "lock_target" => CanLock(command[p].target_account_id)

C22_Witness ==
    \E a \in ExistingAccounts :
        LET balance == BalanceAt(OpeningTable, a, StartTime - WindowDays)
        IN  /\ \A p \in Procs :
                  /\ InCritical(p, a)
                  /\ command[p].source_account_id = a
                  /\ command[p].target_account_id # a
                  /\ Has(p, "withdraw")
                  /\ table_at_call[p] = OpeningTable
                  /\ command[p].money <= balance
            /\ command[1].money + command[2].money > balance

\* The balance of an account as the rows it owns give it.
StoredBalance(table, account_id) ==
    LET owned == SelectSeq(table, LAMBDA r : r.owner_account_id = account_id)
    IN  SumAmounts(SelectSeq(owned,
                     LAMBDA r : r.target_account_id = account_id))
          - SumAmounts(SelectSeq(owned,
                         LAMBDA r : r.source_account_id = account_id))

\* The sum of the persisted balances of all accounts.
TotalStored(table) ==
    LET sum[S \in SUBSET ExistingAccounts] ==
            IF S = {} THEN 0
            ELSE LET a == CHOOSE b \in S : TRUE
                 IN  StoredBalance(table, a) + sum[S \ {a}]
    IN  sum[ExistingAccounts]

Timestamps(window) == {window[i].timestamp : i \in 1 .. Len(window)}

\* C25: on a window with no activities get_start_timestamp and
\* get_end_timestamp fail, whereas calculate_balance(account_id) does not
\* fail and returns zero; it also returns zero for a non-empty window in
\* which no activity has account_id as source or target.
C25_EmptyWindow ==
    LET w == call.before.activity_window
    IN  /\ (call.op = "get_start_timestamp" /\ w = << >>) => ~ call.result
        /\ (call.op = "get_end_timestamp" /\ w = << >>) => ~ call.result
        /\ (/\ call.op = "window_calculate_balance"
            /\ \A i \in 1 .. Len(w) :
                  /\ w[i].source_account_id # call.other
                  /\ w[i].target_account_id # call.other) =>
               (call.result /\ call.value = 0)

C25_Witness ==
    /\ call.op = "get_start_timestamp"
    /\ call.before.activity_window = << >>
    /\ ~ call.result

\* C26: for every non-empty window get_start_timestamp returns the smallest
\* and get_end_timestamp the largest timestamp of its activities, whatever
\* their order, so start <= end; add_activity never raises the start or
\* lowers the end.
C26_StartEnd ==
    LET w == call.before.activity_window
        ts == Timestamps(w)
    IN  /\ (call.op = "get_start_timestamp" /\ w # << >>) =>
              /\ call.result
              /\ call.value \in ts
              /\ \A t \in ts : call.value <= t
              /\ \A v \in Reorderings(w) :
                    Window_get_start_timestamp(v) = Some(call.value)
              /\ call.value <= Unwrap(Window_get_end_timestamp(w))
        /\ (call.op = "get_end_timestamp" /\ w # << >>) =>
              /\ call.result
              /\ call.value \in ts
              /\ \A t \in ts : call.value >= t
              /\ \A v \in Reorderings(w) :
                    Window_get_end_timestamp(v) = Some(call.value)
              /\ Unwrap(Window_get_start_timestamp(w)) <= call.value
        /\ (call.op = "add_activity" /\ w # << >>) =>
              /\ Unwrap(Window_get_start_timestamp(account.activity_window))
                   <= Unwrap(Window_get_start_timestamp(w))
              /\ Unwrap(Window_get_end_timestamp(account.activity_window))
                   >= Unwrap(Window_get_end_timestamp(w))
              /\ \A t \in Timestamps(account.activity_window) :
                    /\ Unwrap(Window_get_start_timestamp(
                                  account.activity_window)) <= t
                    /\ Unwrap(Window_get_end_timestamp(
                                  account.activity_window)) >= t

C26_Witness ==
    /\ call.op = "get_end_timestamp"
    /\ call.result
    /\ LET w == call.before.activity_window
       IN  /\ Len(w) = 2
           /\ w[1].timestamp > w[2].timestamp
           /\ call.value = w[1].timestamp

\* C30: add_activity always grows the window by exactly one entry placed
\* last and keeps every earlier entry and their order, also when an equal
\* activity is already in the window.
C30_AddActivity ==
    call.op = "add_activity" =>
        LET w == account.activity_window
        IN  /\ Len(w) = Len(call.before.activity_window) + 1
            /\ w[Len(w)] = call.value
            /\ Earlier(w) = call.before.activity_window
            /\ account.id = call.before.id
            /\ account.baseline_balance = call.before.baseline_balance

C30_Witness ==
    /\ call.op = "add_activity"
    /\ LET w == call.before.activity_window
       IN  /\ Len(w) = 2
           /\ w[1] = call.value
           /\ w[2] # call.value
    /\ Len(account.activity_window) = 3

\* The rows of the table owned by an account.
OwnedRows(table, account_id) ==
    SelectSeq(table, LAMBDA r : r.owner_account_id = account_id)

\* C29: load_account for an existing account with no owned activity before
\* baseline_date succeeds with a baseline balance of zero, and its window
\* holds the whole owned history.
C29_NoEarlierHistory ==
    (/\ call.op = "load_account"
     /\ ~ IsNone(find_by_id(call.other))
     /\ \A i \in 1 .. Len(activity_entity) :
           activity_entity[i].owner_account_id = call.other =>
               activity_entity[i].timestamp >= call.value) =>
        /\ call.result
        /\ account.id = Some(call.other)
        /\ account.baseline_balance = Money_of(0)
        /\ Len(account.activity_window)
             = Len(OwnedRows(activity_entity, call.other))

C29_Witness ==
    /\ call.op = "load_account"
    /\ call.result
    /\ account.baseline_balance = Money_of(0)
    /\ Len(account.activity_window) = 2
    /\ \A i \in 1 .. Len(activity_entity) :
          /\ activity_entity[i].owner_account_id = call.other
          /\ activity_entity[i].timestamp >= call.value
    /\ \E i \in 1 .. Len(activity_entity) :
          /\ activity_entity[i].timestamp = call.value
          /\ activity_entity[i].target_account_id = call.other

\* C32: the operations of Money agree with integer arithmetic on the
\* amounts: minus(a, b) = substract(a, b) = add(a, negate(b)) = a - b,
\* plus(a, b) = add(a, b) = a + b, negate(negate(a)) = a,
\* is_greater_than_or_equal_to(a, b) exactly when
\* substract(a, b).is_positive_or_zero(), and exactly one of is_positive,
\* is_negative and amount = 0 holds.
C32_MoneyArithmetic ==
    LET a == call.money
        b == call.other
    IN  /\ call.op = "minus" =>
              /\ call.value = Money_substract(a, b)
              /\ call.value = Money_add(a, Money_negate(b))
              /\ call.value = Money_of(a - b)
        /\ call.op = "substract" =>
              /\ call.value = Money_minus(a, b)
              /\ call.value = Money_of(a - b)
        /\ call.op = "plus" =>
              /\ call.value = Money_add(a, b)
              /\ call.value = Money_of(a + b)
        /\ call.op = "add" =>
              /\ call.value = Money_plus(a, b)
              /\ call.value = Money_plus(b, a)
        /\ call.op = "negate" =>
              /\ Money_negate(call.value) = a
              /\ Money_add(a, call.value) = Money_of(0)
        /\ call.op = "is_greater_than_or_equal_to" =>
              (call.value <=>
                 Money_is_positive_or_zero(Money_substract(a, b)))
        /\ call.op = "is_positive" =>
              (call.value <=> (~ Money_is_negative(a) /\ a # Money_of(0)))
        /\ call.op = "is_negative" =>
              (call.value <=> (~ Money_is_positive(a) /\ a # Money_of(0)))
        /\ call.op = "is_positive_or_zero" =>
              (call.value <=> ~ Money_is_negative(a))

C32_Witness ==
    /\ call.op = "minus"
    /\ call.money = Money_of(MinI64 - 1)
    /\ call.other = Money_of(MaxI128)
    /\ call.value = Money_of(MinI64 - 1 - MaxI128)
    /\ Money_is_negative(call.value)

\* C31: the use case is registered at most once: set_dependencies on the
\* empty cell succeeds and registers its argument, every later call fails
\* and leaves the registered use case in place, requests are served by the
\* registered use case, and a request handled while nothing is registered
\* fails without reaching a use case.
C31_RegisteredOnce ==
    /\ call.op = "set_dependencies" =>
          IF IsNone(call.before)
          THEN call.result /\ SEND_MONEY_USE_CASE = Some(call.value)
          ELSE ~ call.result /\ SEND_MONEY_USE_CASE = call.before
    /\ ~ IsNone(SEND_MONEY_USE_CASE) =>
          /\ call.op = "set_dependencies"
          /\ maximum_transfer_threshold =
                Unwrap(SEND_MONEY_USE_CASE).maximum_transfer_threshold
    /\ IsNone(SEND_MONEY_USE_CASE) =>
          /\ call.op = "none"
          /\ activity_entity = OpeningTable
          /\ \A p \in Procs :
                /\ pc[p] = "idle"
                /\ events[p] = << >>
                /\ response[p].status = 0
    /\ \A p \in Procs :
          response[p].returned = "no use case" =>
              response[p].status = 0 /\ calls_left < MaxCalls

C31_Witness ==
    /\ response[1].returned = "no use case"
    /\ call.op = "set_dependencies"
    /\ ~ call.result
    /\ call.value # Unwrap(SEND_MONEY_USE_CASE)
    /\ call.before = SEND_MONEY_USE_CASE

====
